---- MODULE Spec2Model ----
(***************************************************************************)
(* A model of draw.py: the script that sweeps an ephemeris day by day for  *)
(* twilight transitions, expands them to one record per minute, derives    *)
(* the local date and time of day of each minute, filters to the target    *)
(* year, derives the label anchors of the last day, pivots the minutes     *)
(* into a (time of day x date) grid and marks the solstices.               *)
(*                                                                         *)
(* Time.  An instant is a natural number of ticks of UTC time since        *)
(* dates[0] (local midnight of the day before the target year).  A minute  *)
(* is TicksPerMinute ticks.  The model's calendar is scaled: the unit of   *)
(* the resampled timeline (the script's minute) is also the unit of the    *)
(* zone's daylight-saving shift (the script's hour), a local day has       *)
(* dayLen units (the script's 1440 minutes) and the target year has        *)
(* YearDays days (the script's 365).                                       *)
(***************************************************************************)
EXTENDS Integers, Sequences, FiniteSets, TLC

VARIABLES
    dayLen,       \* units per local day of this run's calendar
    eph,          \* the ephemeris: the twilight transitions f goes through
    seasonsEph,   \* what find_discrete returns for almanac.seasons(eph)
    pc,           \* position of the script
    i,            \* index of the discovery loop (line 36)
    all_records,  \* line 35
    all_minutes,  \* lines 47-55
    labels,       \* line 65
    pivoted,      \* line 69
    texts,        \* the stage labels annotated on the axes (lines 117-126)
    j,            \* index of the solstice loop (line 138)
    markers       \* the solstice annotations drawn (lines 143-150)

vars == <<dayLen, eph, seasonsEph, pc, i, all_records, all_minutes, labels,
          pivoted, texts, j, markers>>

----------------------------------------------------------------------------
(* Bounds of the model *)

TicksPerMinute == 2     \* resolution of an instant below the minute
ShortDay == 4           \* units per day of the general calendar
LongDay == 10           \* units per day of the calendar of the label runs
YearDays == 4           \* days of the target year
PadAfter == 1           \* days swept after the target year

(* Program constants *)

PadBefore == 1          \* the sweep starts 2021/12/31, the year 2022/01/01
DstShift == 1           \* Europe/London: summer time is one hour ahead

----------------------------------------------------------------------------
(* skyfield's tables *)

TWILIGHTS ==
    <<"Night", "Astronomical twilight", "Nautical twilight",
      "Civil twilight", "Day">>

PhaseIds == 0 .. (Len(TWILIGHTS) - 1)

SEASON_EVENTS ==
    << <<"V","e","r","n","a","l"," ","E","q","u","i","n","o","x">>,
       <<"S","u","m","m","e","r"," ","S","o","l","s","t","i","c","e">>,
       <<"A","u","t","u","m","n","a","l"," ","E","q","u","i","n","o","x">>,
       <<"W","i","n","t","e","r"," ","S","o","l","s","t","i","c","e">> >>

----------------------------------------------------------------------------
(* The zone: Europe/London, with its two clock changes inside the year *)

Periods == PadBefore + YearDays + PadAfter + 1
NumWindows == Periods - 1

SpringDay == PadBefore + (YearDays \div 2) - 1
FallDay == SpringDay + 1
LastDay == PadBefore + YearDays - 1

\* UTC minute at which summer time starts (01:00 UTC of the spring day)
SpringUTC == SpringDay * dayLen + DstShift
\* UTC minute at which summer time ends (01:00 UTC of the autumn day)
FallUTC == FallDay * dayLen + DstShift

UtcOffset(u) == IF SpringUTC <= u /\ u < FallUTC THEN DstShift ELSE 0

\* wall-clock minute (local minutes since local midnight of day 0)
Wall(u) == u + UtcOffset(u)

\* the UTC minutes that show wall-clock minute w
Preimage(w) == {u \in (w - DstShift) .. w : u >= 0 /\ Wall(u) = w}

IsAmbiguous(w) == Cardinality(Preimage(w)) > 1

\* tz_localize of a wall-clock minute that exists exactly once
Localize(w) == CHOOSE u \in Preimage(w) : TRUE

----------------------------------------------------------------------------
(* Event discovery (lines 31-42) *)

\* pd.date_range(start, freq='1D', periods, tz): the k-th local midnight,
\* as an instant
Dates(k) == Localize(k * dayLen) * TicksPerMinute

\* Variant, not the script: a sweep that starts with the year, the windows
\* of zip(dates[1:], dates[2:])
WindowsFromYear ==
    [k \in 0 .. (NumWindows - 1) |-> <<Dates(k + 1), Dates(k + 2)>>]

\* Variant, not the script: windows that include their end, so that an
\* event on a boundary is in two of them
WindowsInclusive ==
    [k \in 0 .. (NumWindows - 1) |-> <<Dates(k), Dates(k + 1) + 1>>]

\* the windows of zip(dates, dates[1:])
Windows == [k \in 0 .. (NumWindows - 1) |-> <<Dates(k), Dates(k + 1)>>]

\* almanac.find_discrete(t0, t1, f): the transitions of f from t0 up to t1,
\* in order of time
FindDiscrete(t0, t1, f) ==
    SelectSeq(f, LAMBDA ev : t0 <= ev.t /\ ev.t < t1)

\* (t.astimezone(zone), almanac.TWILIGHTS[e], e)
Record(ev) ==
    [StageStart |-> ev.t, Stage |-> TWILIGHTS[ev.e + 1], StageID |-> ev.e]

----------------------------------------------------------------------------
(* Event expansion (lines 44-47) *)

\* Variant, not the script: a floor that resolves an ambiguous time
FloorNeverRaises(t) == FALSE

\* Series.dt.floor('1min') of a zone-aware instant: pandas floors the wall
\* clock time and localizes the result again (ambiguous='raise'), which
\* raises on a time of the hour that the autumn clock change repeats
FloorRaises(t) == IsAmbiguous(Wall(t \div TicksPerMinute))
FloorMinute(t) == t \div TicksPerMinute

WithDateTime(r) ==
    [DateTime |-> FloorMinute(r.StageStart), StageStart |-> r.StageStart,
     Stage |-> r.Stage, StageID |-> r.StageID]

\* all_stages, once line 45 has run
AllStages(records) ==
    [k \in 1 .. Len(records) |-> WithDateTime(records[k])]

\* Variant, not the script: bfill(), the index of the first row at or after m
FirstAtOrAfter(stages, m) ==
    CHOOSE k \in 1 .. Len(stages) :
        /\ stages[k].DateTime >= m
        /\ \A l \in 1 .. Len(stages) : stages[l].DateTime >= m => l >= k

\* the index of the last row of stages whose DateTime is at or before m
LastAtOrBefore(stages, m) ==
    CHOOSE k \in 1 .. Len(stages) :
        /\ stages[k].DateTime <= m
        /\ \A l \in 1 .. Len(stages) : stages[l].DateTime <= m => l <= k

\* set_index('DateTime').resample('1min').ffill().reset_index(): one row per
\* minute from the first DateTime to the last, each a copy of the last row
\* at or before it
ResampleFfill(stages) ==
    LET first == stages[1].DateTime
        last == stages[Len(stages)].DateTime
    IN  [k \in 1 .. (last - first + 1) |->
            LET m == first + k - 1
                src == stages[LastAtOrBefore(stages, m)]
            IN  [DateTime |-> m, StageStart |-> src.StageStart,
                 Stage |-> src.Stage, StageID |-> src.StageID]]

\* what makes lines 44-47 raise: no record at all (.dt on an object column),
\* an instant in the repeated hour (floor), two rows of one minute (reindex)
ExpandRaises(records) ==
    \/ Len(records) = 0
    \/ \E k \in 1 .. Len(records) : FloorRaises(records[k].StageStart)
    \/ \E k, l \in 1 .. Len(records) :
          k # l /\ FloorMinute(records[k].StageStart)
                     = FloorMinute(records[l].StageStart)

----------------------------------------------------------------------------
(* Date, Time and the filter to the target year (lines 49-55) *)

\* DateTime.dt.date: the local calendar date, as a day number
DateOf(m) == Wall(m) \div dayLen

\* to_datetime('2000-01-01 ' + strftime('%H:%M:%S')): the local time of day
TimeOf(m) == Wall(m) % dayLen

\* local noon, as a time of day
Noon == dayLen \div 2

\* strftime('%p')
AmPm(m) == IF TimeOf(m) < Noon THEN "AM" ELSE "PM"

\* '2022/01/01 00:00:00' and '2022/12/31 23:59:59', localized
WindowStart == Dates(PadBefore)
WindowEnd == Dates(PadBefore + YearDays) - 1

Between(m) ==
    /\ WindowStart <= m * TicksPerMinute
    /\ m * TicksPerMinute <= WindowEnd

WithDateAndTime(r) ==
    [DateTime |-> r.DateTime, StageStart |-> r.StageStart, Stage |-> r.Stage,
     StageID |-> r.StageID, Date |-> DateOf(r.DateTime),
     Time |-> TimeOf(r.DateTime)]

FilterYear(minutes) ==
    SelectSeq([k \in 1 .. Len(minutes) |-> WithDateAndTime(minutes[k])],
              LAMBDA r : Between(r.DateTime))

----------------------------------------------------------------------------
(* Label derivation (lines 57-66) *)

RECURSIVE SumSeq(_)
SumSeq(s) == IF s = <<>> THEN 0 ELSE Head(s) + SumSeq(Tail(s))

\* a mean, kept exact as numerator and denominator
Mean(s) == [num |-> SumSeq(s), den |-> Len(s)]

MaxOf(S) == CHOOSE x \in S : \A y \in S : y <= x

DatesIn(minutes) == {minutes[k].Date : k \in 1 .. Len(minutes)}

\* all_minutes[all_minutes['Date'].eq(all_minutes['Date'].max())]
LastDayOf(minutes) ==
    IF minutes = <<>> THEN <<>>
    ELSE SelectSeq(minutes, LAMBDA r : r.Date = MaxOf(DatesIn(minutes)))

\* Variant, not the script: Stage + '_' + strftime('%p') for Day too
PeriodSplitsDay(r) == <<r.Stage, AmPm(r.DateTime)>>

\* Variant, not the script: the stage alone, with no half of the day
PeriodIsStage(r) == <<r.Stage>>

\* np.where(Stage.eq('Day'), 'Day', Stage + '_' + strftime('%p')), kept as
\* the parts that '_' separates
PeriodOf(r) ==
    IF r.Stage = "Day" THEN <<"Day">> ELSE <<r.Stage, AmPm(r.DateTime)>>

\* groupby('Period').agg({'Time': 'mean', 'Date': 'first', 'StageID': 'first'})
GroupLabels(day) ==
    LET periods == {PeriodOf(day[k]) : k \in 1 .. Len(day)}
        group(p) == SelectSeq(day, LAMBDA r : PeriodOf(r) = p)
        times(g) == [k \in 1 .. Len(g) |-> g[k].Time]
    IN  {[Period |-> p, Time |-> Mean(times(group(p))),
          Date |-> group(p)[1].Date, StageID |-> group(p)[1].StageID] :
            p \in periods}

Labels(minutes) == GroupLabels(LastDayOf(minutes))

----------------------------------------------------------------------------
(* Grid construction (line 69) *)

\* an empty cell: the mean of no value
NaN == [num |-> 0, den |-> 0]

\* pivot_table(index='Time', columns='Date', values='StageID'): the rows are
\* the times of day present, the columns the dates present, and a cell is
\* the mean of the StageID of the rows with its time and date, or NaN
PivotTable(minutes) ==
    LET rows == {minutes[k].Time : k \in 1 .. Len(minutes)}
        cols == DatesIn(minutes)
        at(t, d) == SelectSeq(minutes, LAMBDA r : r.Time = t /\ r.Date = d)
        ids(g) == [k \in 1 .. Len(g) |-> g[k].StageID]
    IN  [index |-> rows, columns |-> cols,
         values |-> [c \in rows \X cols |->
                        IF at(c[1], c[2]) = <<>> THEN NaN
                        ELSE Mean(ids(at(c[1], c[2])))]]

\* row['Period'].split('_')[0] at xy = (row['Date'], row['Time'])
StageLabel(row) == [text |-> Head(row.Period), xy |-> <<row.Date, row.Time>>]

----------------------------------------------------------------------------
(* Solstice marking (lines 132-150) *)

UpperChars ==
    <<"A","B","C","D","E","F","G","H","I","J","K","L","M",
      "N","O","P","Q","R","S","T","U","V","W","X","Y","Z">>
LowerChars ==
    <<"a","b","c","d","e","f","g","h","i","j","k","l","m",
      "n","o","p","q","r","s","t","u","v","w","x","y","z">>

\* str.lower()
LowerChar(c) ==
    IF \E k \in 1 .. Len(UpperChars) : UpperChars[k] = c
    THEN LowerChars[CHOOSE k \in 1 .. Len(UpperChars) : UpperChars[k] = c]
    ELSE c
Lower(s) == [k \in 1 .. Len(s) |-> LowerChar(s[k])]

\* sub in s
Contains(sub, s) ==
    \E k \in 0 .. (Len(s) - Len(sub)) :
        \A l \in 1 .. Len(sub) : s[k + l] = sub[l]

Solstice == <<"s","o","l","s","t","i","c","e">>

\* Variant, not the script: 'solstice' in event, without lower()
IsSolsticeCased(event) == Contains(Solstice, event)

\* 'solstice' in event.lower()
IsSolstice(event) == Contains(Solstice, Lower(event))

\* the vertical line and its annotation
Marker(time, event) ==
    [x |-> DateOf(time \div TicksPerMinute), event |-> event]

----------------------------------------------------------------------------
(* The ephemerides the runs are checked on *)

\* the phases the sun takes a place through from one night to the next
Diurnal == <<0, 1, 2, 3, 4, 3, 2, 1>>

RECURSIVE SortedSeq(_)
SortedSeq(S) ==
    IF S = {} THEN <<>>
    ELSE LET m == CHOOSE x \in S : \A y \in S : x <= y
         IN  <<m>> \o SortedSeq(S \ {m})

\* the transitions at the instants of T, the first into phase Diurnal[s + 1]
\* and each next one into the phase that follows in Diurnal
EphOf(T, s) ==
    LET ts == SortedSeq(T)
    IN  [k \in 1 .. Len(ts) |->
            [t |-> ts[k], e |-> Diurnal[((s + k - 1) % Len(Diurnal)) + 1]]]

SweptTicks == 0 .. (Dates(NumWindows) - 1)

\* the instants of minute m
TicksOf(m) == (m * TicksPerMinute) .. (m * TicksPerMinute + TicksPerMinute - 1)

\* the last minute before the year and the first minute after it
MinuteBefore == (WindowStart \div TicksPerMinute) - 1
MinuteAfter == (WindowEnd \div TicksPerMinute) + 1

Optional(S) == {{}} \cup {{t} : t \in S}

\* a transition at b, alone or followed within a minute by a second one
Close(b) ==
    {{b}} \cup {{b, b + g} : g \in {h \in 1 .. TicksPerMinute + 1 :
                                       b + h \in SweptTicks}}

\* at most one transition at the start of the last minute before the year,
\* at most one at any instant of the sweep, alone or followed closely by a
\* second one, and at most one at the start of the first minute after the
\* year
GeneralEphs ==
    {EphOf(A \cup B \cup C, s) :
        A \in Optional({MinuteBefore * TicksPerMinute}),
        B \in {{}} \cup UNION {Close(b) : b \in SweptTicks},
        C \in Optional({MinuteAfter * TicksPerMinute}),
        s \in 0 .. (Len(Diurnal) - 1)}

\* the minutes of the last day of the year
LastDayMinutes == (LastDay * dayLen) .. (LastDay * dayLen + dayLen - 1)

\* night falls before the year, the last day goes through the phases of
\* Diurnal at the minutes of M, each transition late in its minute, and the
\* next transition follows the year
LabelEphs ==
    {EphOf({MinuteBefore * TicksPerMinute}
           \cup {m * TicksPerMinute + TicksPerMinute - 1 : m \in M}
           \cup {MinuteAfter * TicksPerMinute}, 0) :
        M \in {S \in SUBSET LastDayMinutes : Cardinality(S) <= Len(Diurnal)}}

\* one transition before the year and one after it
SeasonRunEphs ==
    {EphOf(A \cup C, 0) :
        A \in {{t} : t \in TicksOf(MinuteBefore)},
        C \in Optional(TicksOf(MinuteAfter))}

\* the instant of the k-th seasonal event of the year (k from 0)
SeasonTime(k) ==
    WindowStart + 1 + (k * (WindowEnd - WindowStart)) \div Len(SEASON_EVENTS)

\* the seasonal events in the order given by the sequence of indices order
SeasonsOf(order) ==
    [k \in 1 .. Len(order) |-> [t |-> SeasonTime(order[k]), idx |-> order[k]]]

Chronological == [k \in 1 .. Len(SEASON_EVENTS) |-> k - 1]

Orders ==
    {o \in [1 .. Len(SEASON_EVENTS) -> 0 .. (Len(SEASON_EVENTS) - 1)] :
        \A k, l \in 1 .. Len(SEASON_EVENTS) : k # l => o[k] # o[l]}

----------------------------------------------------------------------------
(* The script *)

EmptyGrid == [index |-> {}, columns |-> {}, values |-> <<>>]

Start ==
    /\ pc = "discover"
    /\ i = 0
    /\ all_records = <<>>
    /\ all_minutes = <<>>
    /\ labels = {}
    /\ pivoted = EmptyGrid
    /\ texts = {}
    /\ j = 0
    /\ markers = <<>>

Init ==
    /\ dayLen = ShortDay
    /\ eph \in GeneralEphs
    /\ seasonsEph = SeasonsOf(Chronological)
    /\ Start

\* lines 36-42: one turn of the loop over zip(dates, dates[1:])
Discover ==
    /\ pc = "discover"
    /\ i < NumWindows
    /\ LET found == FindDiscrete(Windows[i][1], Windows[i][2], eph)
       IN  all_records' =
               all_records \o [k \in 1 .. Len(found) |-> Record(found[k])]
    /\ i' = i + 1
    /\ pc' = IF i + 1 = NumWindows THEN "expand" ELSE "discover"
    /\ UNCHANGED <<dayLen, eph, seasonsEph, all_minutes, labels, pivoted,
                   texts, j, markers>>

\* lines 44-47
Expand ==
    /\ pc = "expand"
    /\ IF ExpandRaises(all_records)
       THEN /\ pc' = "aborted"
            /\ UNCHANGED all_minutes
       ELSE /\ all_minutes' = ResampleFfill(AllStages(all_records))
            /\ pc' = "filter"
    /\ UNCHANGED <<dayLen, eph, seasonsEph, i, all_records, labels, pivoted,
                   texts, j, markers>>

\* lines 49-55
Filter ==
    /\ pc = "filter"
    /\ all_minutes' = FilterYear(all_minutes)
    /\ pc' = "labels"
    /\ UNCHANGED <<dayLen, eph, seasonsEph, i, all_records, labels, pivoted,
                   texts, j, markers>>

\* lines 57-66
DeriveLabels ==
    /\ pc = "labels"
    /\ labels' = Labels(all_minutes)
    /\ pc' = "pivot"
    /\ UNCHANGED <<dayLen, eph, seasonsEph, i, all_records, all_minutes,
                   pivoted, texts, j, markers>>

\* line 69
Pivot ==
    /\ pc = "pivot"
    /\ pivoted' = PivotTable(all_minutes)
    /\ pc' = "render"
    /\ UNCHANGED <<dayLen, eph, seasonsEph, i, all_records, all_minutes,
                   labels, texts, j, markers>>

\* lines 71-136: the mesh, the axes, the stage labels, the seasons query
Render ==
    /\ pc = "render"
    /\ texts' = {StageLabel(row) : row \in labels}
    /\ j' = 0
    /\ pc' = "solstice"
    /\ UNCHANGED <<dayLen, eph, seasonsEph, i, all_records, all_minutes,
                   labels, pivoted, markers>>

\* lines 138-150: one turn of the loop over zip(datetimes, indices)
MarkSeason ==
    /\ pc = "solstice"
    /\ j < Len(seasonsEph)
    /\ LET event == SEASON_EVENTS[seasonsEph[j + 1].idx + 1]
       IN  markers' = IF IsSolstice(event)
                      THEN Append(markers, Marker(seasonsEph[j + 1].t, event))
                      ELSE markers
    /\ j' = j + 1
    /\ pc' = IF j + 1 = Len(seasonsEph) THEN "save" ELSE "solstice"
    /\ UNCHANGED <<dayLen, eph, seasonsEph, i, all_records, all_minutes,
                   labels, pivoted, texts>>

\* lines 152-162
Save ==
    /\ pc = "save"
    /\ pc' = "done"
    /\ UNCHANGED <<dayLen, eph, seasonsEph, i, all_records, all_minutes,
                   labels, pivoted, texts, j, markers>>

Next ==
    \/ Discover
    \/ Expand
    \/ Filter
    \/ DeriveLabels
    \/ Pivot
    \/ Render
    \/ MarkSeason
    \/ Save

Spec == Init /\ [][Next]_vars

\* the runs on which the labels are checked: a long day, so that every
\* phase can occur before and after noon
InitLabels ==
    /\ dayLen = LongDay
    /\ eph \in LabelEphs
    /\ seasonsEph = SeasonsOf(Chronological)
    /\ Start

SpecLabels == InitLabels /\ [][Next]_vars

\* the runs on which the solstice marks are checked: the seasonal events
\* come back in any order
InitSeasons ==
    /\ dayLen = ShortDay
    /\ eph \in SeasonRunEphs
    /\ seasonsEph \in {SeasonsOf(o) : o \in Orders}
    /\ Start

SpecSeasons == InitSeasons /\ [][Next]_vars

----------------------------------------------------------------------------
(* Where the script is *)

Stages == <<"discover", "expand", "filter", "labels", "pivot", "render",
            "solstice", "save", "done">>

StageNo(p) == CHOOSE k \in 1 .. Len(Stages) : Stages[k] = p

\* the script is past the stage named p
Past(p) == pc # "aborted" /\ StageNo(pc) > StageNo(p)

Rows == 1 .. Len(all_minutes)
Events == 1 .. Len(all_records)

\* the instant of minute m
InstantOf(m) == m * TicksPerMinute

----------------------------------------------------------------------------
(* C1 *)

\* C1 as stated: between two adjacent transitions (t1, phase1) and
\* (t2, phase2), every minute record whose instant lies in [t1, t2) has
\* phase1.
C1_BetweenInstants ==
    Past("expand") =>
        \A k \in Events : \A r \in Rows :
            ( /\ k + 1 \in Events
              /\ all_records[k].StageStart <= InstantOf(all_minutes[r].DateTime)
              /\ InstantOf(all_minutes[r].DateTime) < all_records[k + 1].StageStart )
            => /\ all_minutes[r].Stage = all_records[k].Stage
               /\ all_minutes[r].StageID = all_records[k].StageID

\* C1, amended: between two adjacent transitions (t1, phase1) and
\* (t2, phase2), every minute record whose instant lies in
\* [floor(t1), floor(t2)) has phase1: a minute has the phase of the last
\* transition that falls before the minute ends.
C1_BetweenFlooredInstants ==
    Past("expand") =>
        \A k \in Events : \A r \in Rows :
            ( /\ k + 1 \in Events
              /\ all_records[k].StageStart \div TicksPerMinute
                    <= all_minutes[r].DateTime
              /\ all_minutes[r].DateTime
                    < all_records[k + 1].StageStart \div TicksPerMinute )
            => /\ all_minutes[r].Stage = all_records[k].Stage
               /\ all_minutes[r].StageID = all_records[k].StageID

\* two adjacent transitions, the second one inside a minute, with a record
\* of the minute of the first one and a record of the minute of the second
C1_Witness ==
    /\ Past("expand")
    /\ \E k \in Events : \E r1, r2 \in Rows :
          /\ k + 1 \in Events
          /\ all_records[k + 1].StageStart % TicksPerMinute # 0
          /\ all_minutes[r1].DateTime
                = all_records[k].StageStart \div TicksPerMinute
          /\ all_minutes[r2].DateTime
                = all_records[k + 1].StageStart \div TicksPerMinute
          /\ all_minutes[r1].StageID = all_records[k].StageID
          /\ all_minutes[r2].StageID = all_records[k + 1].StageID

----------------------------------------------------------------------------
(* C2, C4, C5, C10 *)

\* the minutes of the target year, as minutes of the timeline
WindowMinutes ==
    (WindowStart \div TicksPerMinute) .. (WindowEnd \div TicksPerMinute)

\* the oracle reports a transition in the padding before the year, and one
\* in the padding after it
HasBefore == \E k \in 1 .. Len(eph) : eph[k].t < WindowStart
HasAfter ==
    \E k \in 1 .. Len(eph) :
        WindowEnd < eph[k].t /\ eph[k].t < Dates(NumWindows)

Cells == pivoted.index \X pivoted.columns

\* C2 as stated: with the year covered, the grid has one row per minute of
\* the day (1440), one column per day of the year (365), and no cell is
\* empty.
C2_GridComplete ==
    (Past("pivot") /\ HasBefore /\ HasAfter) =>
        /\ pivoted.index = 0 .. (dayLen - 1)
        /\ pivoted.columns = PadBefore .. LastDay
        /\ \A c \in Cells : pivoted.values[c] # NaN

\* C4: past the filter, if the oracle reported a transition before the year
\* and one after it, every minute of the year, the first and the last one
\* included, has exactly one record, and its phase-id is defined.
C4_EveryMinuteOnce ==
    (Past("filter") /\ HasBefore /\ HasAfter) =>
        \A m \in WindowMinutes :
            /\ Cardinality({r \in Rows : all_minutes[r].DateTime = m}) = 1
            /\ \A r \in Rows :
                  all_minutes[r].DateTime = m
                     => all_minutes[r].StageID \in PhaseIds

\* a filtered year with a transition on either side of it, whose records run
\* from the first minute of the year to the last
C4_Witness ==
    /\ Past("filter") /\ HasBefore /\ HasAfter
    /\ Len(all_minutes) = Cardinality(WindowMinutes)
    /\ all_minutes[1].DateTime * TicksPerMinute = WindowStart
    /\ all_minutes[Len(all_minutes)].DateTime * TicksPerMinute
          = WindowEnd - (TicksPerMinute - 1)
    /\ \E k \in 1 .. Len(eph) :
          WindowStart < eph[k].t /\ eph[k].t < WindowEnd

\* C5: every minute record carries a phase-id among 0..4 and the name of
\* that phase-id, and every cell of the grid that is not empty holds one of
\* the integers 0..4.
C5_PhaseIds ==
    /\ Past("expand") =>
          \A r \in Rows :
              /\ all_minutes[r].StageID \in PhaseIds
              /\ all_minutes[r].Stage = TWILIGHTS[all_minutes[r].StageID + 1]
    /\ Past("pivot") =>
          \A c \in Cells :
              pivoted.values[c] # NaN =>
                  /\ pivoted.values[c].num % pivoted.values[c].den = 0
                  /\ (pivoted.values[c].num \div pivoted.values[c].den)
                        \in PhaseIds

\* a grid with a cell that is the mean of two records, in a year that has
\* a transition in it
C5_Witness ==
    /\ Past("pivot")
    /\ \E c \in Cells : pivoted.values[c] # NaN /\ pivoted.values[c].den = 2
    /\ \E k \in 1 .. Len(eph) :
          WindowStart < eph[k].t /\ eph[k].t < WindowEnd
    /\ \E r1, r2 \in Rows : all_minutes[r1].StageID # all_minutes[r2].StageID

\* C10 as stated: no two minute records of the filtered year have the same
\* (date, time of day), so that a cell of the grid holds the phase-id of one
\* record.
C10_KeyInjective ==
    /\ Past("filter") =>
          \A r1, r2 \in Rows :
              ( /\ all_minutes[r1].Date = all_minutes[r2].Date
                /\ all_minutes[r1].Time = all_minutes[r2].Time ) => r1 = r2
    /\ Past("pivot") =>
          \A c \in Cells :
              pivoted.values[c] # NaN => pivoted.values[c].den = 1

----------------------------------------------------------------------------
(* C8, C6 *)

StrictlyIncreasing(records) ==
    \A k, l \in 1 .. Len(records) :
        k < l => records[k].StageStart < records[l].StageStart

\* the transitions of the ephemeris from dates[0] up to the instant t
TransitionsBefore(t) == {eph[k].t : k \in {l \in 1 .. Len(eph) : eph[l].t < t}}

\* C8: turn i of the discovery loop sweeps [dates[i], dates[i+1]), which
\* starts where the turn before ended; it keeps what was recorded and appends
\* events of its window only; all_records stays strictly increasing in time
\* and holds, once each, the transitions from dates[0] up to dates[i+1];
\* there are Periods - 1 turns.
C8_Sweep ==
    [][pc = "discover" =>
        /\ i' = i + 1 /\ i' <= Periods - 1
        /\ (pc' = "discover") = (i' < Periods - 1)
        /\ Len(all_records') >= Len(all_records)
        /\ SubSeq(all_records', 1, Len(all_records)) = all_records
        /\ \A k \in (Len(all_records) + 1) .. Len(all_records') :
              /\ Dates(i) <= all_records'[k].StageStart
              /\ all_records'[k].StageStart < Dates(i + 1)
        /\ StrictlyIncreasing(all_records')
        /\ {all_records'[k].StageStart : k \in 1 .. Len(all_records')}
              = TransitionsBefore(Dates(i + 1))
        /\ Len(all_records') = Cardinality(TransitionsBefore(Dates(i + 1)))
    ]_vars

\* the sweep is over and has recorded a transition that falls on a boundary
\* between two windows and a transition of a later window
C8_Witness ==
    /\ pc = "expand"
    /\ i = Periods - 1
    /\ \E k, l \in Events : \E w \in 1 .. (NumWindows - 1) :
          /\ all_records[k].StageStart = Dates(w)
          /\ all_records[l].StageStart >= Dates(w + 1)

SummerSolstice == SEASON_EVENTS[2]
WinterSolstice == SEASON_EVENTS[4]

\* C6: of the four seasonal events of the year, in whatever order they come
\* back, the loop marks exactly two, the summer and the winter solstice, and
\* no equinox.
C6_Solstices ==
    Past("solstice") =>
        /\ Len(markers) = 2
        /\ {markers[k].event : k \in 1 .. Len(markers)}
              = {SummerSolstice, WinterSolstice}

\* the loop is over, and the events came back with the winter solstice
\* first and an equinox last
C6_Witness ==
    /\ Past("solstice")
    /\ Len(seasonsEph) = 4
    /\ SEASON_EVENTS[seasonsEph[1].idx + 1] = WinterSolstice
    /\ seasonsEph[4].idx = 0
    /\ Len(markers) = 2
    /\ markers[1].event = WinterSolstice

----------------------------------------------------------------------------
(* C9, C3 *)

\* the phase-id of Day
DayId == Len(TWILIGHTS) - 1

\* the final (maximum) date of the filtered year
FinalDate == MaxOf({all_minutes[r].Date : r \in Rows})

\* the rows of the final date
FinalRows == IF Rows = {} THEN {} ELSE {r \in Rows : all_minutes[r].Date = FinalDate}

\* the half of the day of a row: before local noon or not
HalfOf(r) == IF all_minutes[r].Time < Noon THEN "AM" ELSE "PM"

\* the period of a row: Day, or its phase and its half of the day
PeriodKey(r) ==
    IF all_minutes[r].StageID = DayId THEN <<DayId>>
    ELSE <<all_minutes[r].StageID, HalfOf(r)>>

\* the period an anchor stands for
KeyOfLabel(a) ==
    IF Len(a.Period) = 1 THEN <<a.StageID>> ELSE <<a.StageID, a.Period[2]>>

RECURSIVE SumOfTimes(_)
SumOfTimes(R) ==
    IF R = {} THEN 0
    ELSE LET r == CHOOSE x \in R : TRUE
         IN  all_minutes[r].Time + SumOfTimes(R \ {r})

AnchorsOf(id) == {a \in labels : a.StageID = id}

\* C9: the anchors stand one to one for the periods present on the final
\* date of the filtered year (Day, or a phase and a half of the day); Day
\* has at most one anchor and every other phase at most two; an anchor has
\* the final date, the name and the phase-id of its phase, and the mean of
\* the times of day of the minutes of its period.
C9_Anchors ==
    Past("labels") =>
        LET final == FinalRows
            keys == {PeriodKey(r) : r \in final}
        IN  /\ {KeyOfLabel(a) : a \in labels} = keys
            /\ Cardinality(labels) = Cardinality(keys)
            /\ Cardinality(AnchorsOf(DayId)) <= 1
            /\ \A id \in PhaseIds : Cardinality(AnchorsOf(id)) <= 2
            /\ \A a \in labels :
                  LET mine == {r \in final : PeriodKey(r) = KeyOfLabel(a)}
                  IN  /\ a.StageID \in PhaseIds
                      /\ Head(a.Period) = TWILIGHTS[a.StageID + 1]
                      /\ Len(a.Period) = (IF a.StageID = DayId THEN 1 ELSE 2)
                      /\ a.Date = FinalDate
                      /\ a.Time.den = Cardinality(mine)
                      /\ a.Time.num = SumOfTimes(mine)

\* the final date has Day before and after noon, under one anchor, and a
\* twilight before and after noon, under two
C9_Witness ==
    /\ pc = "pivot"
    /\ \E r1, r2 \in FinalRows :
          /\ all_minutes[r1].StageID = DayId /\ HalfOf(r1) = "AM"
          /\ all_minutes[r2].StageID = DayId /\ HalfOf(r2) = "PM"
    /\ Cardinality(AnchorsOf(DayId)) = 1
    /\ \E id \in PhaseIds : Cardinality(AnchorsOf(id)) = 2
    /\ \E a \in labels : a.Time.den > 1 /\ a.Time.num % a.Time.den # 0

\* the phase-id of the final date at time of day t
PhaseAt(t) ==
    LET r == CHOOSE x \in Rows :
                 all_minutes[x].Date = FinalDate /\ all_minutes[x].Time = t
    IN  all_minutes[r].StageID

\* the final day runs Night, astronomical, nautical, civil twilight, Day,
\* civil, nautical, astronomical twilight, Night: the phase rises by steps
\* of one from Night at midnight to Day before noon, is Day at noon, and
\* falls by steps of one to Night before the day ends
NineRuns ==
    /\ {all_minutes[r].Time : r \in FinalRows} = 0 .. (dayLen - 1)
    /\ Cardinality(FinalRows) = dayLen
    /\ PhaseAt(0) = 0 /\ PhaseAt(dayLen - 1) = 0
    /\ \E n1, n2 \in 0 .. (dayLen - 1) :
          /\ n1 < Noon /\ n2 >= Noon
          /\ PhaseAt(n1) = DayId /\ PhaseAt(n2) = DayId
          /\ \A t \in 1 .. n1 :
                PhaseAt(t) \in {PhaseAt(t - 1), PhaseAt(t - 1) + 1}
          /\ \A t \in n1 .. n2 : PhaseAt(t) = DayId
          /\ \A t \in (n2 + 1) .. (dayLen - 1) :
                PhaseAt(t) \in {PhaseAt(t - 1), PhaseAt(t - 1) - 1}

TwilightIds == PhaseIds \ {0, DayId}

\* C3 as stated: on such a day there is one Day anchor, there are two
\* anchors for each of the three twilights, and 7 anchors in all.
C3_SevenAnchors ==
    (Past("labels") /\ NineRuns) =>
        /\ Cardinality(AnchorsOf(DayId)) = 1
        /\ \A id \in TwilightIds : Cardinality(AnchorsOf(id)) = 2
        /\ Cardinality(labels) = 7

\* C3, amended: on such a day there is one Day anchor, there are two
\* anchors for each of the three twilights and two for Night, and 9 anchors
\* in all.
C3_NineAnchors ==
    (Past("labels") /\ NineRuns) =>
        /\ Cardinality(AnchorsOf(DayId)) = 1
        /\ \A id \in TwilightIds : Cardinality(AnchorsOf(id)) = 2
        /\ Cardinality(AnchorsOf(0)) = 2
        /\ Cardinality(labels) = 9

\* the labels of a final day of nine runs
C3_Witness ==
    /\ pc = "pivot"
    /\ NineRuns
    /\ labels # {}

====
